---- MODULE Spec2Model ----
(***************************************************************************)
(* IRSWeatherDataProvider (pcse/fileinput/irsweatherdataprovider.py):      *)
(* construction of a provider from a CSV weather file with an on-disk      *)
(* cache that is validated by modification time.                           *)
(*                                                                         *)
(* Floats are kept exactly as <<mantissa, exponent10>> pairs, dates as     *)
(* <<year, month, day>>.  The results of the external reference_ET are     *)
(* uninterpreted terms over its arguments.                                 *)
(***************************************************************************)
EXTENDS Integers, Sequences, FiniteSets, TLC

VARIABLES
    clock,      \* file-system time
    src,        \* source path -> file (exists, mtime, content)
    cache,      \* files of settings.METEO_CACHE_DIR, by file name
    pc,         \* position of the constructor
    arg,        \* csv_fname given to the constructor
    found,      \* value returned by _find_cache_file
    handle,     \* csv_file is open
    rownum,     \* rows the csv reader has handed out
    header,     \* local `header` of _read_observations
    meta,       \* attributes set by _read_meta or _load
    store,      \* self.store: date -> WeatherDataContainer
    warned,     \* self.logger.warning was called
    err,        \* exception leaving the constructor
    trace,      \* steps taken by the running constructor, in order
    fresh       \* per source: what the last undisturbed cache write stored

vars == <<clock, src, cache, pc, arg, found, handle, rownum, header, meta,
          store, warned, err, trace, fresh>>

----------------------------------------------------------------------------
(* Bounds *)

MaxClock == 2    \* file-system time runs 0..MaxClock
MaxRows == 2     \* data rows in a source file
MaxExtra == 1    \* extra columns inserted into a header (header inputs)

----------------------------------------------------------------------------
(* Values *)

None == [none |-> TRUE]

Flt(m, e) == <<m, e>>
Scale10(x, k) == Flt(x[1], x[2] + k)

\* float(x): the texts Python's float() accepts, among those used here
NumVal ==
    ("0" :> 0) @@ ("5" :> 5) @@ ("7" :> 7) @@ ("9" :> 9) @@ ("15" :> 15) @@
    ("52" :> 52) @@ ("100" :> 100) @@
    ("20150801" :> 20150801) @@ ("20150802" :> 20150802) @@
    ("20150809" :> 20150809)

\* strptime(x, '%Y%m%d').date(): the texts it accepts
DateVal ==
    ("20150801" :> <<2015, 8, 1>>) @@ ("20150802" :> <<2015, 8, 2>>) @@
    ("20150809" :> <<2015, 8, 9>>)

Ok(v) == [ok |-> TRUE, v |-> v]
Raise(e) == [ok |-> FALSE, v |-> e]

float(x) == IF x \in DOMAIN NumVal THEN Ok(Flt(NumVal[x], 0)) ELSE Raise("ValueError")

NoConversion(x) == float(x)
MJ_to_J(x) == IF float(x).ok THEN Ok(Scale10(float(x).v, 6)) ELSE float(x)
mm_to_cm(x) == IF float(x).ok THEN Ok(Scale10(float(x).v, -1)) ELSE float(x)
csvdate_to_date(x) == IF x \in DOMAIN DateVal THEN Ok(DateVal[x]) ELSE Raise("ValueError")

\* keys of `translator`, in the order of the dict literal
TranslatorKeys == <<"DAY", "IRRAD", "TMIN", "TMAX", "VAP", "WIND", "RAIN">>

translator ==
    [DAY   |-> <<"w_date", "DAY">>,
     IRRAD |-> <<"srad", "RADIATION">>,
     TMIN  |-> <<"tmin", "TEMPERATURE_MIN">>,
     TMAX  |-> <<"tmax", "TEMPERATURE_MAX">>,
     VAP   |-> <<"vprs_tx", "VAPOURPRESSURE">>,
     WIND  |-> <<"wind", "WINDSPEED">>,
     RAIN  |-> <<"rain", "PRECIPITATION">>]

obs_conversions(h, x) ==
    CASE h = "TMAX" -> NoConversion(x)
      [] h = "TMIN" -> NoConversion(x)
      [] h = "IRRAD" -> MJ_to_J(x)
      [] h = "DAY" -> csvdate_to_date(x)
      [] h = "VAP" -> NoConversion(x)
      [] h = "WIND" -> NoConversion(x)
      [] h = "RAIN" -> mm_to_cm(x)
      [] OTHER -> Raise("KeyError")

InList(item, list) == \E i \in 1..Len(list) : list[i] = item

\* faulty variant: only the first spelling of a field is recognized
RECURSIVE JoinKeysFirst(_, _)
JoinKeysFirst(keys, item) ==
    IF keys = <<>> THEN ""
    ELSE (IF item = translator[Head(keys)][1] THEN Head(keys) ELSE "")
         \o JoinKeysFirst(Tail(keys), item)

TranslateCell_first(item) == JoinKeysFirst(TranslatorKeys, item)

\* ''.join(key for key, value in translator.items() if item in value)
RECURSIVE JoinKeys(_, _)
JoinKeys(keys, item) ==
    IF keys = <<>> THEN ""
    ELSE (IF InList(item, translator[Head(keys)]) THEN Head(keys) ELSE "")
         \o JoinKeys(Tail(keys), item)

TranslateCell(item) == JoinKeys(TranslatorKeys, item)

\* del row[-1]
DropLast(row) == SubSeq(row, 1, Len(row) - 1)

\* the header loop: header[i] replaced by its translation
TranslateHeader(row) == [i \in 1..Len(row) |-> TranslateCell(row[i])]

Min(a, b) == IF a < b THEN a ELSE b
SetMax(S) == CHOOSE x \in S : \A y \in S : y <= x

\* dict(zip(header, row)): truncated to the shorter, a later pair replaces
\* an earlier one with the same key
ZipDict(h, row) ==
    LET n == Min(Len(h), Len(row))
        keys == {h[i] : i \in 1..n}
    IN [k \in keys |-> row[SetMax({i \in 1..n : h[i] = k})]]

\* if '' in d: del d['']
DelEmpty(d) == [k \in DOMAIN d \ {""} |-> d[k]]

\* for h in d.keys(): d[h] = func(d[h])  -- raises at the first failure
ConvertAll(d) ==
    IF \E k \in DOMAIN d : ~obs_conversions(k, d[k]).ok
    THEN Raise("ValueError")
    ELSE Ok([k \in DOMAIN d |-> obs_conversions(k, d[k]).v])

\* reference_ET(LAT, ELEV, ANGSTA, ANGSTB, **d): external pure function;
\* a call without one of its meteorological arguments raises
ETArgs == {"DAY", "IRRAD", "TMIN", "TMAX", "VAP", "WIND"}
reference_ET(m, d) ==
    IF ETArgs \subseteq DOMAIN d
    THEN Ok([q \in {"e0", "es0", "et0"} |->
               [fn |-> q, lat |-> m.latitude, elev |-> m.elevation,
                a |-> m.angstA, b |-> m.angstB, d |-> d]])
    ELSE Raise("TypeError")

\* e0/10.
Div10(t) == [div10 |-> t]

\* WeatherDataContainer(LAT=, LON=, ELEV=, **d): every variable is required
Required == {"LAT", "LON", "ELEV", "DAY", "IRRAD", "TMIN", "TMAX", "VAP",
             "RAIN", "E0", "ES0", "ET0", "WIND"}
WeatherDataContainer(d) ==
    IF Required \subseteq DOMAIN d THEN Ok(d) ELSE Raise("PCSEError")

\* body of the loop of _read_observations for one data row
ProcessRow(m, h, rawrow) ==
    IF rawrow = <<>> THEN Raise("IndexError")
    ELSE
    LET conv == ConvertAll(DelEmpty(ZipDict(h, DropLast(rawrow))))
    IN  IF ~conv.ok THEN conv
        ELSE
        LET et == reference_ET(m, conv.v)
        IN  IF ~et.ok THEN et
            ELSE
            LET d == ("E0" :> Div10(et.v["e0"])) @@ ("ES0" :> Div10(et.v["es0"]))
                     @@ ("ET0" :> Div10(et.v["et0"])) @@ conv.v
                wdc == WeatherDataContainer(
                         ("LAT" :> m.latitude) @@ ("LON" :> m.longitude)
                         @@ ("ELEV" :> m.elevation) @@ d)
            IN  wdc

\* _store_WeatherDataContainer(wdc, d["DAY"])
StoreWDC(s, wdc) ==
    [k \in DOMAIN s \cup {wdc["DAY"]} |-> IF k = wdc["DAY"] THEN wdc ELSE s[k]]

----------------------------------------------------------------------------
(* _read_meta *)

angstA == Flt(-18, -2)
angstB == Flt(-55, -2)
nodata_value == -99

\* util.check_angstromAB: returns the validated pair
check_angstromAB(a, b) == <<a, b>>

\* `site` is the site line, stripped and split at ' ', each token given as
\* its parts around '/' (token 0) or '=' (the others)
_read_meta(site, comment) ==
    IF Len(site[1]) < 2 THEN Raise("IndexError")
    ELSE IF Len(site) < 3 \/ Len(site[3]) < 2 THEN Raise("IndexError")
    ELSE IF ~float(site[3][2]).ok THEN Raise("ValueError")
    ELSE IF Len(site[2]) < 2 THEN Raise("IndexError")
    ELSE IF ~float(site[2][2]).ok THEN Raise("ValueError")
    ELSE IF Len(site) < 4 \/ Len(site[4]) < 2 THEN Raise("IndexError")
    ELSE IF ~float(site[4][2]).ok THEN Raise("ValueError")
    ELSE Ok([nodata_value |-> nodata_value,
             description |-> <<site[1][2], site[1][1], comment>>,
             longitude |-> float(site[3][2]).v,
             latitude |-> float(site[2][2]).v,
             elevation |-> float(site[4][2]).v,
             angstA |-> check_angstromAB(angstA, angstB)[1],
             angstB |-> check_angstromAB(angstA, angstB)[2]])

----------------------------------------------------------------------------
(* Source files *)

Path1 == [dir |-> "/data", base |-> "weather", ext |-> ".csv"]
Paths == {Path1}

SiteGood == << <<"Wageningen", "NL">>, <<"lat", "52">>, <<"lon", "5">>, <<"elev", "7">> >>
SiteBad == << <<"Wageningen", "NL">>, <<"lat", "x">>, <<"lon", "5">>, <<"elev", "7">> >>

Insert(seq, pos, x) == SubSeq(seq, 1, pos - 1) \o <<x>> \o SubSeq(seq, pos, Len(seq))

\* header line in the column order of the format, spelling sp[i] for
\* field i, closed by the empty cell the trailing ';' gives
HeaderOf(sp) == [i \in 1..7 |-> translator[TranslatorKeys[i]][sp[i]]] \o <<"">>

HdrA == HeaderOf([i \in 1..7 |-> 2])
HdrB == Insert(HeaderOf([i \in 1..7 |-> 1]), 1, "station")

RowKinds == {"d1", "d2", "bad", "short"}
RowOf(kind) ==
    CASE kind = "d1" -> <<"20150801", "15", "5", "15", "9", "7", "100", "">>
      [] kind = "d2" -> <<"20150802", "9", "0", "7", "5", "5", "0", "">>
      [] kind = "bad" -> <<"20150802", "9", "x", "7", "5", "5", "0", "">>
      [] kind = "short" -> <<"20150802", "9", "0", "">>

KindSeqs == UNION {[1..n -> RowKinds] : n \in 0..MaxRows}

FileOf(site, hdr, kinds, lead) ==
    [site |-> site, comment |-> "IRS2",
     rows |-> <<hdr>> \o [i \in 1..Len(kinds) |->
                 IF lead THEN <<"x">> \o RowOf(kinds[i]) ELSE RowOf(kinds[i])]]

Files ==
    {FileOf(SiteGood, HdrA, ks, FALSE) : ks \in KindSeqs}
    \cup {FileOf(SiteGood, HdrB, ks, TRUE) : ks \in KindSeqs}
    \cup {FileOf(SiteBad, HdrA, <<"d1">>, FALSE)}

NoFile == [exists |-> FALSE, mtime |-> 0, content |-> <<>>]

----------------------------------------------------------------------------
(* Cache files *)

ClassName == "IRSWeatherDataProvider"

_get_cache_filename(csv_fname) == ClassName \o "_" \o csv_fname.base \o ".cache"

CacheNames == {_get_cache_filename(p) : p \in Paths}

\* faulty variant: a cache file as old as the source is accepted
_find_cache_file_ge(csv_fname) ==
    LET cache_filename == _get_cache_filename(csv_fname)
    IN  IF cache[cache_filename].exists
           /\ cache[cache_filename].mtime >= src[csv_fname].mtime
        THEN cache_filename
        ELSE "None"

_find_cache_file(csv_fname) ==
    LET cache_filename == _get_cache_filename(csv_fname)
    IN  IF cache[cache_filename].exists
           /\ cache[cache_filename].mtime > src[csv_fname].mtime
        THEN cache_filename
        ELSE "None"

\* the serialized snapshot, as the sequence of its parts
Pickle(m, s) == <<m, s>>

\* _dump(cache_fname) under the three ways the write can go: written,
\* refused when the file is opened, or broken off after the file was opened
\* and part of the snapshot written
WriteOutcomes == {"ok", "denied", "diskfull"}
_dump(old, bytes, outcome) ==
    CASE outcome = "ok" ->
           [ok |-> TRUE, file |-> [exists |-> TRUE, mtime |-> clock, content |-> bytes]]
      [] outcome = "denied" ->
           [ok |-> FALSE, file |-> old]
      [] outcome = "diskfull" ->
           [ok |-> FALSE,
            file |-> [exists |-> TRUE, mtime |-> clock,
                      content |-> SubSeq(bytes, 1, Len(bytes) - 1)]]

\* _load(cache_fname): the whole snapshot or an exception
_load(file) ==
    IF Len(file.content) = 2
    THEN Ok([meta |-> file.content[1], store |-> file.content[2]])
    ELSE Raise("UnpicklingError")

EmptyStore == [k \in {} |-> None]

----------------------------------------------------------------------------
(* State *)

Init ==
    /\ clock = 0
    /\ src = [p \in Paths |-> NoFile]
    /\ cache = [c \in CacheNames |-> NoFile]
    /\ pc = "idle"
    /\ arg = Path1
    /\ found = "None"
    /\ handle = FALSE
    /\ rownum = 0
    /\ header = <<>>
    /\ meta = None
    /\ store = EmptyStore
    /\ warned = FALSE
    /\ err = ""
    /\ trace = <<>>
    /\ fresh = [p \in Paths |-> None]

instance == <<arg, found, handle, rownum, header, meta, store, warned, err, trace>>

Rows == src[arg].content.rows

----------------------------------------------------------------------------
(* The file system between two constructions *)

\* st_mtime has a granularity: files written before the next tick carry the
\* same mtime
Tick ==
    /\ pc = "idle"
    /\ clock < MaxClock
    /\ clock' = clock + 1
    /\ UNCHANGED <<src, cache, pc, instance, fresh>>

WriteSource(p, f) ==
    /\ pc = "idle"
    /\ src' = [src EXCEPT ![p] = [exists |-> TRUE, mtime |-> clock, content |-> f]]
    /\ fresh' = [fresh EXCEPT ![p] = None]
    /\ UNCHANGED <<clock, cache, pc, instance>>

TouchSource(p) ==
    /\ pc = "idle"
    /\ src[p].exists
    /\ src[p].mtime < clock
    /\ src' = [src EXCEPT ![p].mtime = clock]
    /\ fresh' = [fresh EXCEPT ![p] = None]
    /\ UNCHANGED <<clock, cache, pc, instance>>

DeleteSource(p) ==
    /\ pc = "idle"
    /\ src[p].exists
    /\ src' = [src EXCEPT ![p] = NoFile]
    /\ fresh' = [fresh EXCEPT ![p] = None]
    /\ UNCHANGED <<clock, cache, pc, instance>>

\* the cache file is damaged from outside (truncated to nothing)
CorruptCache(c) ==
    /\ pc = "idle"
    /\ cache[c].exists
    /\ cache' = [cache EXCEPT ![c] = [exists |-> TRUE, mtime |-> clock, content |-> <<>>]]
    /\ fresh' = [p \in Paths |-> IF _get_cache_filename(p) = c THEN None ELSE fresh[p]]
    /\ UNCHANGED <<clock, src, pc, instance>>

----------------------------------------------------------------------------
(* IRSWeatherDataProvider.__init__, step by step *)

Step(name) == trace' = Append(trace, name)

\* provider = IRSWeatherDataProvider(csv_fname)
Construct(p) ==
    /\ pc = "idle"
    /\ pc' = "resolve"
    /\ arg' = p
    /\ UNCHANGED <<clock, src, cache, found, handle, rownum, header, meta,
                   store, warned, err, trace, fresh>>

\* faulty variant: the existence of the source is not checked
ResolvingPath_nocheck ==
    /\ pc = "resolve"
    /\ trace' = Append(trace, "resolve")
    /\ pc' = "lookup"
    /\ UNCHANGED <<clock, src, cache, arg, found, handle, rownum, header, meta,
                   store, warned, err, fresh>>

\* os.path.exists(self.fp_csv_fname), else raise PCSEError
ResolvingPath ==
    /\ pc = "resolve"
    /\ Step("resolve")
    /\ IF src[arg].exists
       THEN pc' = "lookup" /\ err' = err
       ELSE pc' = "failed" /\ err' = "PCSEError: Cannot find weather file"
    /\ UNCHANGED <<clock, src, cache, arg, found, handle, rownum, header, meta,
                   store, warned, fresh>>

\* _load_cache_file, first half: cache_filename = self._find_cache_file(csv_fname)
FindCache ==
    /\ pc = "lookup"
    /\ Step("lookup")
    /\ found' = _find_cache_file(arg)
    /\ pc' = IF found' = "None" THEN "open" ELSE "load"
    /\ UNCHANGED <<clock, src, cache, arg, handle, rownum, header, meta,
                   store, warned, err, fresh>>

\* faulty variant: reports a hit without loading the snapshot
_load_cache_file_noload ==
    /\ pc' = "ready"
    /\ UNCHANGED <<meta, store, err>>

\* _load_cache_file, second half: self._load(cache_filename); return True.
\* An exception of _load is not handled here nor in __init__.
_load_cache_file ==
    LET r == _load(cache[found])
    IN  IF r.ok
        THEN /\ meta' = r.v.meta
             /\ store' = r.v.store
             /\ pc' = "ready"
             /\ err' = err
        ELSE /\ pc' = "failed"
             /\ err' = r.v
             /\ UNCHANGED <<meta, store>>

LoadCache ==
    /\ pc = "load"
    /\ Step("load")
    /\ _load_cache_file
    /\ UNCHANGED <<clock, src, cache, arg, found, handle, rownum, header,
                   warned, fresh>>

\* with open(csv_fname) as csv_file: two readline()s and csv.reader
OpenSource ==
    /\ pc = "open"
    /\ Step("open")
    /\ handle' = TRUE
    /\ pc' = "meta"
    /\ UNCHANGED <<clock, src, cache, arg, found, rownum, header, meta, store,
                   warned, err, fresh>>

\* an exception inside the with block: the file is closed, then it
\* leaves the constructor
Abort(e) ==
    /\ pc' = "failed"
    /\ err' = e
    /\ handle' = FALSE

\* (the attributes _read_meta sets before it raises are lost with the object)
ReadMeta ==
    /\ pc = "meta"
    /\ Step("meta")
    /\ LET r == _read_meta(src[arg].content.site, src[arg].content.comment)
       IN  IF r.ok
           THEN meta' = r.v /\ pc' = "obs" /\ UNCHANGED <<err, handle>>
           ELSE Abort(r.v) /\ meta' = meta
    /\ UNCHANGED <<clock, src, cache, arg, found, rownum, header, store,
                   warned, fresh>>

\* first pass of the loop: the header row
ReadHeaderRow ==
    /\ pc = "obs"
    /\ rownum = 0
    /\ rownum < Len(Rows)
    /\ Step("header")
    /\ rownum' = 1
    /\ header' = TranslateHeader(DropLast(Rows[1]))
    /\ UNCHANGED <<clock, src, cache, pc, arg, found, handle, meta, store,
                   warned, err, fresh>>

\* faulty variant: a row that raises is passed over
_read_observations_skip(row) ==
    LET r == ProcessRow(meta, header, row)
    IN  /\ store' = IF r.ok THEN StoreWDC(store, r.v) ELSE store
        /\ UNCHANGED <<pc, err, handle>>

\* faulty variant: a row that raises ends the reading and the cache is written
_read_observations_swallow(row) ==
    LET r == ProcessRow(meta, header, row)
    IN  IF r.ok
        THEN store' = StoreWDC(store, r.v) /\ UNCHANGED <<pc, err, handle>>
        ELSE pc' = "write" /\ UNCHANGED <<store, err, handle>>

\* a later pass of the loop: one data row, stored or raising
_read_observations(row) ==
    LET r == ProcessRow(meta, header, row)
    IN  IF r.ok
        THEN store' = StoreWDC(store, r.v) /\ UNCHANGED <<pc, err, handle>>
        ELSE Abort(r.v) /\ store' = store

ReadDataRow ==
    /\ pc = "obs"
    /\ rownum > 0
    /\ rownum < Len(Rows)
    /\ Step("row")
    /\ rownum' = rownum + 1
    /\ _read_observations(Rows[rownum + 1])
    /\ UNCHANGED <<clock, src, cache, arg, found, header, meta, warned, fresh>>

\* the reader is exhausted: the loop ends, _write_cache_file is next
EndOfRows ==
    /\ pc = "obs"
    /\ rownum = Len(Rows)
    /\ pc' = "write"
    /\ UNCHANGED <<clock, src, cache, arg, found, handle, rownum, header, meta,
                   store, warned, err, trace, fresh>>

\* faulty variant: the exception of _dump is not caught
_write_cache_file_uncaught(outcome) ==
    LET cache_filename == _get_cache_filename(arg)
        r == _dump(cache[cache_filename], Pickle(meta, store), outcome)
    IN  /\ cache' = [cache EXCEPT ![cache_filename] = r.file]
        /\ warned' = FALSE
        /\ pc' = IF r.ok THEN "ready" ELSE "failed"
        /\ err' = IF r.ok THEN err ELSE "IOError"

\* _write_cache_file: _dump inside try/except (IOError, EnvironmentError),
\* the exception logged as a warning
_write_cache_file(outcome) ==
    LET cache_filename == _get_cache_filename(arg)
        r == _dump(cache[cache_filename], Pickle(meta, store), outcome)
    IN  /\ cache' = [cache EXCEPT ![cache_filename] = r.file]
        /\ warned' = ~r.ok
        /\ pc' = "ready"
        /\ err' = err

\* line 69 and the end of the with block: the file is closed after the write
WriteCache(outcome) ==
    /\ pc = "write"
    /\ Step("write")
    /\ _write_cache_file(outcome)
    /\ handle' = FALSE
    /\ fresh' = [p \in Paths |->
                   IF _get_cache_filename(p) # _get_cache_filename(arg) \/ outcome = "denied"
                   THEN fresh[p]
                   ELSE IF p = arg /\ outcome = "ok"
                        THEN [meta |-> meta, store |-> store]
                        ELSE None]
    /\ UNCHANGED <<clock, src, arg, found, rownum, header, meta, store>>

\* the constructor has returned or raised; the caller is done with the object
Return ==
    /\ pc \in {"ready", "failed"}
    /\ pc' = "idle"
    /\ found' = "None"
    /\ handle' = FALSE
    /\ rownum' = 0
    /\ header' = <<>>
    /\ meta' = None
    /\ store' = EmptyStore
    /\ warned' = FALSE
    /\ err' = ""
    /\ trace' = <<>>
    /\ UNCHANGED <<clock, src, cache, arg, fresh>>

Next ==
    \/ Tick
    \/ \E p \in Paths : \E f \in Files : WriteSource(p, f)
    \/ \E p \in Paths : TouchSource(p)
    \/ \E p \in Paths : DeleteSource(p)
    \/ \E c \in CacheNames : CorruptCache(c)
    \/ \E p \in Paths : Construct(p)
    \/ ResolvingPath
    \/ FindCache
    \/ LoadCache
    \/ OpenSource
    \/ ReadMeta
    \/ ReadHeaderRow
    \/ ReadDataRow
    \/ EndOfRows
    \/ \E outcome \in WriteOutcomes : WriteCache(outcome)
    \/ Return

Spec == Init /\ [][Next]_vars

----------------------------------------------------------------------------
(* The observation reader on arbitrary headers: the state after _read_meta  *)
(* on a file whose header has extra columns (unknown, empty or repeated)   *)
(* inserted and whose single data row carries a cell for each of them.     *)

SpellingVectors ==
    {[i \in 1..7 |-> 1], [i \in 1..7 |-> 2]}
    \cup {[i \in 1..7 |-> IF i = j THEN 2 ELSE 1] : j \in 1..7}

ExtraHeaderCells == {"foo", "", "tmin", "DAY", "TMIN"}
ExtraDataCells == {"0", "20150802", "x"}
ExtraPositions == {1, 4, 8}
Extras == UNION {[1..n -> ExtraPositions \X ExtraHeaderCells \X ExtraDataCells] :
                 n \in 0..MaxExtra}

HeaderBaseRow == <<"20150801", "15", "5", "52", "9", "7", "100", "">>

RECURSIVE WithExtras(_, _, _)
WithExtras(hdr, row, xs) ==
    IF xs = <<>> THEN <<hdr, row>>
    ELSE WithExtras(Insert(hdr, Head(xs)[1], Head(xs)[2]),
                    Insert(row, Head(xs)[1], Head(xs)[3]), Tail(xs))

HeaderFiles ==
    {[site |-> SiteGood, comment |-> "IRS2",
      rows |-> WithExtras(HeaderOf(sp), HeaderBaseRow, xs)] :
        sp \in SpellingVectors, xs \in Extras}

InitHeader ==
    /\ clock = 0
    /\ \E f \in HeaderFiles :
         src = [p \in Paths |-> [exists |-> TRUE, mtime |-> 0, content |-> f]]
    /\ cache = [c \in CacheNames |-> NoFile]
    /\ pc = "obs"
    /\ arg = Path1
    /\ found = "None"
    /\ handle = TRUE
    /\ rownum = 0
    /\ header = <<>>
    /\ meta = _read_meta(SiteGood, "IRS2").v
    /\ store = EmptyStore
    /\ warned = FALSE
    /\ err = ""
    /\ trace = <<"resolve", "lookup", "open", "meta">>
    /\ fresh = [p \in Paths |-> None]

NextHeader ==
    \/ ReadHeaderRow
    \/ ReadDataRow
    \/ EndOfRows

SpecHeader == InitHeader /\ [][NextHeader]_vars

----------------------------------------------------------------------------
(* Vocabulary of the properties *)

CacheOf(p) == cache[_get_cache_filename(p)]
Newer(p) == CacheOf(p).exists /\ CacheOf(p).mtime > src[p].mtime
JustLookedUp == pc \in {"load", "open"}
Did(name) == InList(name, trace)
NotFound == "PCSEError: Cannot find weather file"

CanonFields == {TranslatorKeys[i] : i \in 1..Len(TranslatorKeys)}
Spells(k, c) == InList(c, translator[k])
Recognized(c) == \E k \in CanonFields : Spells(k, c)
Canon(c) == IF Recognized(c) THEN CHOOSE k \in CanonFields : Spells(k, c) ELSE ""

\* columns of a raw row that lie under a header cell (both without the
\* final cell)
Cols(hdr, row) == 1..Min(Len(hdr) - 1, Len(row) - 1)
MissingField(hdr, row) ==
    \E k \in CanonFields : \A i \in Cols(hdr, row) : ~Spells(k, hdr[i])
BadCell(hdr, row) ==
    \E i \in Cols(hdr, row) :
        Recognized(hdr[i]) /\ ~obs_conversions(Canon(hdr[i]), row[i]).ok
BadRow(hdr, row) == MissingField(hdr, row) \/ BadCell(hdr, row)
DayColumn(hdr) == CHOOSE i \in 1..Len(hdr) : Spells("DAY", hdr[i])
RowErrors == {"ValueError", "TypeError", "PCSEError", "IndexError", "KeyError"}

----------------------------------------------------------------------------
C2_CorruptCacheIsMiss ==
    ~(pc = "failed" /\ Did("load"))

(* C3: after a cache write that failed part-way no incomplete cache file   *)
(* is left that the lookup accepts, and no later construction fails on it. *)
C3_NoPartialCacheAccepted ==
    \A p \in Paths :
        (src[p].exists /\ CacheOf(p).exists /\ Len(CacheOf(p).content) = 1)
            => /\ _find_cache_file(p) = "None"
               /\ ~(pc = "failed" /\ arg = p /\ Did("load"))

(* C4: the step that writes the cache always ends in Ready without an      *)
(* error, with the fully parsed series and the metadata untouched; a write *)
(* that did not produce the cache file is logged as a warning.             *)
C4_WriteFailureNotFatal ==
    [][pc = "write" =>
        /\ pc' = "ready"
        /\ err' = ""
        /\ store' = store
        /\ meta' = meta
        /\ meta = _read_meta(src[arg].content.site, src[arg].content.comment).v
        /\ rownum = Len(Rows)
        /\ DOMAIN store = {DateVal[Rows[i][DayColumn(Rows[1])]] : i \in 2..Len(Rows)}
        /\ \/ CacheOf(arg)' = [exists |-> TRUE, mtime |-> clock,
                               content |-> Pickle(meta, store)]
           \/ warned']_vars

\* Ready after a failed write, holding a two-day series
C4_Witness ==
    /\ pc = "ready"
    /\ warned
    /\ Cardinality(DOMAIN store) = 2

C6_AbortAtFirstBadRow ==
    /\ (pc = "failed" /\ Did("row")) =>
          /\ err \in RowErrors
          /\ BadRow(Rows[1], Rows[rownum])
          /\ \A j \in 2..(rownum - 1) : ~BadRow(Rows[1], Rows[j])
          /\ trace[Len(trace)] = "row"
    /\ (pc \in {"obs", "write"} \/ (pc = "ready" /\ Did("open"))) =>
          \A j \in 2..rownum : ~BadRow(Rows[1], Rows[j])
    /\ (pc = "ready" /\ Did("open")) => rownum = Len(Rows)

\* aborted at a bad second data row after a good first one
C6_Witness ==
    /\ pc = "failed"
    /\ Did("row")
    /\ rownum = 3
    /\ store # EmptyStore

(* C7: a path that does not exist fails in ResolvingPath with the not-found *)
(* error before any lookup, load or read, with no series and no change to   *)
(* the cache, also when a cache file for the base name exists.              *)
C7_MissingSourceFailsFirst ==
    [][(pc = "resolve" /\ ~src[arg].exists) =>
        /\ pc' = "failed"
        /\ err' = NotFound
        /\ trace' = <<"resolve">>
        /\ cache' = cache
        /\ store' = EmptyStore
        /\ meta' = None
        /\ handle' = FALSE
        /\ found' = "None"]_vars

\* failed on a missing source while a loadable cache file exists
C7_Witness ==
    /\ pc = "failed"
    /\ err = NotFound
    /\ CacheOf(arg).exists
    /\ Len(CacheOf(arg).content) = 2

(* C8 as claimed: a header cell with a recognized spelling resolves to its  *)
(* canonical field and any other cell to the empty marker; the record made  *)
(* from a data row has no entry for an unrecognized column and holds every  *)
(* recognized column's value under its canonical field.                     *)
HeaderResolved ==
    rownum >= 1 =>
        /\ Len(header) = Len(Rows[1]) - 1
        /\ \A i \in 1..Len(header) :
              /\ \A k \in CanonFields : Spells(k, Rows[1][i]) => header[i] = k
              /\ ~Recognized(Rows[1][i]) => header[i] = ""

\* the record stored for the data row
Record == store[CHOOSE k \in DOMAIN store : TRUE]

C8_EveryRecognizedColumnKept ==
    /\ HeaderResolved
    /\ (rownum = 2 /\ pc # "failed") =>
          /\ DOMAIN store # {}
          /\ DOMAIN Record \cap ({""} \cup {Rows[1][i] : i \in 1..Len(header)}) \subseteq CanonFields
          /\ DOMAIN Record \cap CanonFields =
                {Canon(Rows[1][i]) : i \in 1..Len(header)} \ {""}
          /\ \A i \in 1..Len(header) :
                Recognized(Rows[1][i]) =>
                    Record[Canon(Rows[1][i])]
                        = obs_conversions(Canon(Rows[1][i]), Rows[2][i]).v

(* C8 amended: as claimed, except that when several columns resolve to the *)
(* same canonical field the record holds the value of the last of them.    *)
LastColumn(k) == SetMax({i \in 1..Len(header) : Spells(k, Rows[1][i])})

C8_LastRecognizedColumnKept ==
    /\ HeaderResolved
    /\ (rownum = 2 /\ pc # "failed") =>
          /\ DOMAIN store # {}
          /\ DOMAIN Record \cap ({""} \cup {Rows[1][i] : i \in 1..Len(header)}) \subseteq CanonFields
          /\ DOMAIN Record \cap CanonFields =
                {Canon(Rows[1][i]) : i \in 1..Len(header)} \ {""}
          /\ \A k \in CanonFields :
                Record[k] = obs_conversions(k, Rows[2][LastColumn(k)]).v

\* a record made under a header with an unrecognized column whose cell
\* converts under no field
C8_Witness ==
    /\ rownum = 2
    /\ pc = "write"
    /\ \E i \in 1..Len(header) :
          /\ Rows[1][i] = "foo"
          /\ header[i] = ""
          /\ Rows[2][i] = "x"
    /\ \E i \in 1..Len(header) : Rows[1][i] = "TEMPERATURE_MIN" /\ header[i] = "TMIN"

(* C9: the steps run in the order lookup, then on a hit the load and       *)
(* nothing else, on a miss open, meta, header, rows, write; the cache file *)
(* changes only in the write step, which starts after every row was read   *)
(* and stored; a constructor that fails leaves the cache file as it was.   *)
StepOrder(T) ==
    \A i \in 1..Len(T) :
        /\ T[i] = "resolve" => i = 1
        /\ T[i] = "lookup" => i = 2 /\ T[1] = "resolve"
        /\ T[i] = "load" => i = 3 /\ T[2] = "lookup" /\ i = Len(T)
        /\ T[i] = "open" => i = 3 /\ T[2] = "lookup"
        /\ T[i] = "meta" => i > 1 /\ T[i - 1] = "open"
        /\ T[i] = "header" => i > 1 /\ T[i - 1] = "meta"
        /\ T[i] = "row" => i > 1 /\ T[i - 1] \in {"header", "row"}
        /\ T[i] = "write" => i > 1 /\ T[i - 1] \in {"header", "row"} /\ i = Len(T)

C9_StepOrder ==
    [][/\ StepOrder(trace')
       /\ (pc # "idle" /\ Did("load")') => (found' # "None" /\ Newer(arg))
       /\ (pc # "idle" /\ Did("open")') => found' = "None"
       /\ (pc # "idle" /\ Did("open")' /\ ~Did("write")') => ~Newer(arg)'
       /\ (pc # "idle" /\ cache' # cache) =>
             /\ pc = "write"
             /\ err = ""
             /\ rownum = Len(Rows)
             /\ \A j \in 2..Len(Rows) :
                   DateVal[Rows[j][DayColumn(Rows[1])]] \in DOMAIN store
       /\ pc' = "failed" => cache' = cache]_vars

\* Ready after a miss that read two rows and then wrote the cache
C9_Witness ==
    /\ pc = "ready"
    /\ trace = <<"resolve", "lookup", "open", "meta", "header", "row", "row", "write">>
    /\ CacheOf(arg).content = Pickle(meta, store)

(* C10: the source file is open only while the meta lines and the rows are *)
(* read; it is closed when the cache write begins and whenever the         *)
(* constructor has returned or raised.                                     *)
C10_HandleScopedToReading ==
    /\ handle => pc \in {"meta", "obs"}
    /\ pc \in {"ready", "failed", "idle"} => ~handle

====
